---- MODULE Spec2Model ----
(***************************************************************************)
(* The POI import command (poi/management/commands/import_poi.py) and the  *)
(* PointOfInterest model (poi/models.py) as a state machine.               *)
(*                                                                         *)
(* Text is a sequence of one-character strings, so that the conversions    *)
(* (json.loads, float, Decimal, str.strip, str.split) are computed as the  *)
(* code computes them.  A Python value is a record                         *)
(*   [kind, text, num, items]                                              *)
(* with kind in "str", "num", "list", "dict", "none".  A number is held    *)
(* as an integer in units of 1/Scale.                                      *)
(***************************************************************************)
EXTENDS Integers, Sequences, FiniteSets, TLC

VARIABLES
    store,            \* the rows of the PointOfInterest table
    pc,               \* Command.handle: "idle", "running", "done"
    file_paths,       \* options['file_paths'] of the run
    idx,              \* index in file_paths of the next source of the for loop
    update_existing,  \* options['update'] of the run
    total_imported,   \* handle's running totals
    total_skipped,
    total_updated,
    out,              \* the lines handle has written to stdout in this run
    ratings_data,     \* argument of a parse_ratings call
    ratings_result,   \* what the call returned
    rpc,              \* position of the parse_ratings call
    workers           \* concurrent save_poi calls: one record per caller

vars == <<store, pc, file_paths, idx, update_existing, total_imported,
          total_skipped, total_updated, out, ratings_data, ratings_result,
          rpc, workers>>

(***************************************************************************)
(* Bounds of the model.                                                    *)
(***************************************************************************)
MaxRecs == 2          \* records in one document
MaxSources == 2       \* sources in one run's list of mixed sources
MaxRatingLen == 4     \* characters of an arbitrary ratings string
FracDigits == 5       \* decimal places a number of the model can hold

(***************************************************************************)
(* Python values.                                                          *)
(***************************************************************************)
PStr(s) == [kind |-> "str", text |-> s, num |-> 0, items |-> <<>>]
PNum(n) == [kind |-> "num", text |-> <<>>, num |-> n, items |-> <<>>]
PList(xs) == [kind |-> "list", text |-> <<>>, num |-> 0, items |-> xs]
PDict == [kind |-> "dict", text |-> <<>>, num |-> 0, items |-> <<>>]
PNone == [kind |-> "none", text |-> <<>>, num |-> 0, items |-> <<>>]

(***************************************************************************)
(* Numerals.                                                               *)
(***************************************************************************)
Digits == {"1", "2", "3", "4", "5"}

DigitVal(c) ==
    CASE c = "1" -> 1 [] c = "2" -> 2 [] c = "3" -> 3 [] c = "4" -> 4
      [] c = "5" -> 5

RECURSIVE Pow10(_)
Pow10(n) == IF n = 0 THEN 1 ELSE 10 * Pow10(n - 1)

Scale == Pow10(FracDigits)

RECURSIVE NatOf(_)
NatOf(s) ==
    IF s = <<>> THEN 0
    ELSE 10 * NatOf(SubSeq(s, 1, Len(s) - 1)) + DigitVal(s[Len(s)])

\* The index after the longest run of digits of s that starts at i.
ScanDigits(s, i) ==
    CHOOSE j \in i..(Len(s) + 1) :
        /\ \A k \in i..(j - 1) : s[k] \in Digits
        /\ (j <= Len(s) => s[j] \notin Digits)

\* The number with integer digits ip and fraction digits fp, in 1/Scale.
NumberOf(ip, fp) ==
    NatOf(ip) * Scale + NatOf(fp) * Pow10(FracDigits - Len(fp))

\* float(s) accepts digits, digits ".", digits "." digits and "." digits.
FloatParts(s) ==
    LET Dot(j) == j <= Len(s) /\ s[j] = "."
        Parts(j, k) ==
            [ok |-> /\ k = Len(s) + 1
                    /\ (j > 1 \/ (Dot(j) /\ k > j + 1)),
             ip |-> SubSeq(s, 1, j - 1),
             fp |-> IF Dot(j) THEN SubSeq(s, j + 1, k - 1) ELSE <<>>]
        From(j) == Parts(j, IF Dot(j) THEN ScanDigits(s, j + 1) ELSE j)
    IN  From(ScanDigits(s, 1))

IsFloat(s) == FloatParts(s).ok

FloatOf(s) ==
    LET Number(p) == NumberOf(p.ip, p.fp)
    IN  Number(FloatParts(s))

(***************************************************************************)
(* json.loads, on text over the characters of the model: a number is       *)
(* digits with an optional "." digits, an array is "[" values "]", and     *)
(* the only object that needs no quote character is "{}".  Anything else,  *)
(* and any text left after the value, is a JSONDecodeError.                *)
(***************************************************************************)
JsonFail == [ok |-> FALSE, val |-> PNone, next |-> 0]

JsonNumber(s, i) ==
    LET Number(j, k) ==
            IF j = i THEN JsonFail
            ELSE [ok |-> TRUE,
                  val |-> PNum(NumberOf(SubSeq(s, i, j - 1),
                                        IF k > j THEN SubSeq(s, j + 1, k - 1)
                                        ELSE <<>>)),
                  next |-> k]
        Frac(j, k) ==
            Number(j, IF j <= Len(s) /\ s[j] = "." /\ k > j + 1 THEN k
                      ELSE j)
        From(j) == Frac(j, ScanDigits(s, j + 1))
    IN  From(ScanDigits(s, i))

RECURSIVE JsonValue(_, _)
RECURSIVE JsonElems(_, _, _)

\* The elements of an array after "[" or ",": acc holds those read so far.
JsonElems(s, i, acc) ==
    LET After(v) ==
            IF ~v.ok \/ v.next > Len(s) THEN JsonFail
            ELSE IF s[v.next] = "]"
                 THEN [ok |-> TRUE, val |-> PList(Append(acc, v.val)),
                       next |-> v.next + 1]
            ELSE IF s[v.next] = ","
                 THEN JsonElems(s, v.next + 1, Append(acc, v.val))
            ELSE JsonFail
    IN  After(JsonValue(s, i))

JsonValue(s, i) ==
    IF i > Len(s) THEN JsonFail
    ELSE IF s[i] = "["
         THEN IF i + 1 <= Len(s) /\ s[i + 1] = "]"
              THEN [ok |-> TRUE, val |-> PList(<<>>), next |-> i + 2]
              ELSE JsonElems(s, i + 1, <<>>)
    ELSE IF s[i] = "{"
         THEN IF i + 1 <= Len(s) /\ s[i + 1] = "}"
              THEN [ok |-> TRUE, val |-> PDict, next |-> i + 2]
              ELSE JsonFail
    ELSE IF s[i] \in Digits THEN JsonNumber(s, i)
    ELSE JsonFail

json_loads(s) ==
    LET Whole(v) == IF v.ok /\ v.next = Len(s) + 1 THEN v ELSE JsonFail
    IN  Whole(JsonValue(s, 1))

(***************************************************************************)
(* str.strip("{}") and str.split(",").                                     *)
(***************************************************************************)
Braces == {"{", "}"}

StripBraces(s) ==
    LET inner == {i \in 1..Len(s) : s[i] \notin Braces}
        Lo == CHOOSE i \in inner : \A j \in inner : i <= j
        Hi == CHOOSE i \in inner : \A j \in inner : i >= j
    IN  IF inner = {} THEN <<>> ELSE SubSeq(s, Lo, Hi)

RECURSIVE SplitComma(_)
SplitComma(s) ==
    LET commas == {i \in 1..Len(s) : s[i] = ","}
        c == CHOOSE i \in commas : \A j \in commas : i <= j
    IN  IF commas = {} THEN <<s>>
        ELSE <<SubSeq(s, 1, c - 1)>> \o SplitComma(SubSeq(s, c + 1, Len(s)))

SelectNonEmpty(pieces) == SelectSeq(pieces, LAMBDA x : x # <<>>)

(***************************************************************************)
(* Command.parse_ratings.                                                  *)
(***************************************************************************)
parse_ratings(data) ==
    IF data.kind = "list" THEN data
    ELSE IF data.kind = "str"
    THEN LET Parsed(j, pieces) ==
                 IF j.ok THEN j.val
                 ELSE IF \A i \in 1..Len(pieces) : IsFloat(pieces[i])
                      THEN PList([i \in 1..Len(pieces) |->
                                     PNum(FloatOf(pieces[i]))])
                 ELSE IF IsFloat(data.text)
                      THEN PList(<<PNum(FloatOf(data.text))>>)
                 ELSE PList(<<>>)
         IN  Parsed(json_loads(data.text),
                    SelectNonEmpty(SplitComma(StripBraces(data.text))))
    ELSE PList(<<>>)

(***************************************************************************)
(* The PointOfInterest table.  A row holds the model's fields; the         *)
(* AutoField internal_id of a new row is the next unused number (no row    *)
(* is ever deleted).  A column that was given no value holds its default:  *)
(* description is nullable and has none.                                   *)
(***************************************************************************)
Null == "NULL"

LatitudeMaxDigits == 10
LongitudeMaxDigits == 11
DecimalPlaces == 8
LatitudeIntDigits == LatitudeMaxDigits - DecimalPlaces
LongitudeIntDigits == LongitudeMaxDigits - DecimalPlaces

\* A DecimalField refuses a value with more integer digits than it holds.
StoreAccepts(data) ==
    /\ data.latitude < Pow10(LatitudeIntDigits) * Scale
    /\ data.longitude < Pow10(LongitudeIntDigits) * Scale

NewRow(st, data) ==
    [internal_id |-> Cardinality(st) + 1,
     external_id |-> data.external_id,
     name |-> data.name,
     latitude |-> data.latitude,
     longitude |-> data.longitude,
     category |-> data.category,
     ratings |-> data.ratings,
     description |-> IF "description" \in DOMAIN data THEN data.description
                     ELSE Null]

\* The column without unique=True: no INSERT is refused for its
\* external_id.
UniqueViolation_NotEnforced(st, data) == FALSE

\* unique=True on external_id: an INSERT of a second row with the same
\* external_id is refused (IntegrityError).
UniqueViolation(st, data) ==
    \E row \in st : row.external_id = data.external_id

\* A loop over the fields that leaves category as it was.
SetAttrs_SkipsCategory(row, data) ==
    [f \in DOMAIN row |->
        IF f \in DOMAIN data \ {"category"} THEN data[f] ELSE row[f]]

\* for field, value in poi_data.items(): setattr(poi, field, value)
SetAttrs(row, data) ==
    [f \in DOMAIN row |-> IF f \in DOMAIN data THEN data[f] ELSE row[f]]

Matching(st, data) == {row \in st : row.external_id = data.external_id}

\* PointOfInterest.objects.get_or_create(external_id=..., defaults=poi_data):
\* the row with that external_id when there is one, else a new row made
\* from the defaults.  err is an exception leaving the call.
get_or_create_AlwaysInsert(st, data) ==
    [err |-> FALSE, created |-> TRUE, poi |-> NewRow(st, data),
     st |-> st \cup {NewRow(st, data)}]

get_or_create(st, data) ==
    LET found == Matching(st, data)
        none == [err |-> TRUE, created |-> FALSE, poi |-> NewRow(st, data),
                 st |-> st]
    IN  IF Cardinality(found) = 1
        THEN [err |-> FALSE, created |-> FALSE,
              poi |-> CHOOSE row \in found : TRUE, st |-> st]
        ELSE IF found # {} THEN none                 \* MultipleObjectsReturned
        ELSE IF ~StoreAccepts(data) THEN none        \* the INSERT is refused
        ELSE IF UniqueViolation(st, data) THEN none  \* IntegrityError
        ELSE [err |-> FALSE, created |-> TRUE, poi |-> NewRow(st, data),
              st |-> st \cup {NewRow(st, data)}]

Result(st, i, s, u) ==
    [st |-> st, imported |-> i, skipped |-> s, updated |-> u]

\* save_poi with the test of update_existing lost: a row found is updated.
save_poi_IgnoresFlag(st, data, upd) ==
    LET Save(g, new) ==
            IF g.err THEN Result(st, 0, 1, 0)
            ELSE IF g.created THEN Result(g.st, 1, 0, 0)
            ELSE IF StoreAccepts(new)
                 THEN Result((g.st \ {g.poi}) \cup {new}, 0, 0, 1)
            ELSE Result(st, 0, 1, 0)
        Got(g) == Save(g, SetAttrs(g.poi, data))
    IN  Got(get_or_create(st, data))

\* Command.save_poi: (imported, skipped, updated) and the table afterwards.
save_poi(st, data, upd) ==
    LET Save(g, new) ==
            IF g.err THEN Result(st, 0, 1, 0)
            ELSE IF g.created THEN Result(g.st, 1, 0, 0)
            ELSE IF upd
                 THEN IF StoreAccepts(new)
                      THEN Result((g.st \ {g.poi}) \cup {new}, 0, 0, 1)
                      ELSE Result(st, 0, 1, 0)       \* poi.save() raises
            ELSE Result(g.st, 0, 1, 0)
        Got(g) == Save(g, SetAttrs(g.poi, data))
    IN  Got(get_or_create(st, data))

(***************************************************************************)
(* Raw records.  A raw record is a function from the fields the document   *)
(* gives for it to their values: text for the coordinates, a Python value  *)
(* for the ratings.  The field names stand for the format's own (poi_id,   *)
(* id, pid, ...).                                                          *)
(***************************************************************************)
Required == {"id", "name", "latitude", "longitude", "category", "ratings"}

\* The dict a parser builds from one raw record, or the exception it hits:
\* a missing field (KeyError, AttributeError) or a numeral Decimal refuses.
BuildPoiData(parser, r) ==
    IF ~(Required \subseteq DOMAIN r) THEN [ok |-> FALSE, data |-> <<>>]
    ELSE IF ~IsFloat(r.latitude) \/ ~IsFloat(r.longitude)
         THEN [ok |-> FALSE, data |-> <<>>]
    ELSE LET desc == IF "description" \in DOMAIN r THEN r.description ELSE ""
             Data(base) == IF parser = "json"
                           THEN base @@ [description |-> desc]
                           ELSE base
         IN  [ok |-> TRUE,
              data |-> Data([external_id |-> r.id,
                             name |-> r.name,
                             latitude |-> FloatOf(r.latitude),
                             longitude |-> FloatOf(r.longitude),
                             category |-> r.category,
                             ratings |-> parse_ratings(r.ratings)])]

\* The loop with the try block around it instead of in it: the first record
\* that fails is counted and ends the loop.
ProcessRecord_AbortOnError(parser, acc, r, upd) ==
    LET Add(s) == Result(s.st, acc.imported + s.imported,
                         acc.skipped + s.skipped, acc.updated + s.updated)
        Built(b) ==
            IF acc.skipped > 0 \/ ~b.ok
            THEN Result(acc.st, acc.imported, 1, acc.updated)
            ELSE Add(save_poi(acc.st, b.data, upd))
    IN  Built(BuildPoiData(parser, r))

\* One pass of a parser's for loop: the try block and its except clauses.
ProcessRecord(parser, acc, r, upd) ==
    LET Add(s) == Result(s.st, acc.imported + s.imported,
                         acc.skipped + s.skipped, acc.updated + s.updated)
        Built(b) ==
            IF ~b.ok
            THEN Result(acc.st, acc.imported, acc.skipped + 1, acc.updated)
            ELSE Add(save_poi(acc.st, b.data, upd))
    IN  Built(BuildPoiData(parser, r))

\* The for loop over the records of one source, from counters 0, 0, 0.
RECURSIVE ProcessAll(_, _, _, _)
ProcessAll(parser, st, recs, upd) ==
    IF recs = <<>> THEN Result(st, 0, 0, 0)
    ELSE ProcessRecord(parser,
                       ProcessAll(parser, st,
                                  SubSeq(recs, 1, Len(recs) - 1), upd),
                       recs[Len(recs)], upd)

(***************************************************************************)
(* Sources.  A source is                                                   *)
(*   [remote, ext, ctype, available, doc]                                  *)
(* remote: the path starts with http:// or https://; ext: the suffix of    *)
(* the path or URL, lower-cased; ctype: which of "csv", "json", "xml"      *)
(* occur in the response's content-type; available: the file opens, or     *)
(* the GET answers 2xx in time.  Its document is                           *)
(*   [fmt, wellformed, tag, recs]                                          *)
(* fmt: the format the text is written in; wellformed: that format's       *)
(* reader accepts the whole text; tag: the element name that holds a       *)
(* record in an XML document; recs: its raw records.  A CSV document that  *)
(* is not wellformed makes the reader raise after its recs.                *)
(***************************************************************************)
Formats == {"csv", "json", "xml"}

\* A row or element with none of the fields of a record.
Unrelated == [other |-> "x"]

XmlTagsRemote == {"poi", "point", "item", "DATA_RECORD"}
XmlTagsLocal == {"poi", "point", "item"}

\* What the parser's for loop iterates over.  Text of another format, read
\* by csv.DictReader, is a header line and one row per record without the
\* poi_ columns.  An XML document with no element of a searched name gives
\* its root as the only element.
Records(parser, remote, doc) ==
    IF parser = "xml"
    THEN IF /\ doc.tag \in (IF remote THEN XmlTagsRemote ELSE XmlTagsLocal)
            /\ doc.recs # <<>>
         THEN doc.recs
         ELSE <<Unrelated>>
    ELSE IF parser = doc.fmt THEN doc.recs
    ELSE [i \in 1..Len(doc.recs) |-> Unrelated]

Outcome(ok, parser, r) ==
    [ok |-> ok, parser |-> parser, st |-> r.st, imported |-> r.imported,
     skipped |-> r.skipped, updated |-> r.updated]

Raised(parser, st) == Outcome(FALSE, parser, Result(st, 0, 0, 0))

\* Command.import_csv and Command.import_csv_from_content: the rows are
\* reconciled as they are read, so a reader that raises part-way leaves the
\* rows before it in the table.
import_csv(st, src, upd) ==
    LET Read(r) ==
            IF src.doc.fmt = "csv" /\ ~src.doc.wellformed
            THEN Raised("csv", r.st)
            ELSE Outcome(TRUE, "csv", r)
    IN  IF ~src.available THEN Raised("csv", st)
        ELSE Read(ProcessAll("csv", st,
                             Records("csv", src.remote, src.doc), upd))

\* Command.import_json and Command.import_json_from_content.
import_json(st, src, upd) ==
    IF ~src.available \/ src.doc.fmt # "json" \/ ~src.doc.wellformed
    THEN Raised("json", st)
    ELSE Outcome(TRUE, "json",
                 ProcessAll("json", st,
                            Records("json", src.remote, src.doc), upd))

\* import_xml_from_content with the ParseError turned into a CommandError,
\* as import_xml does.
import_xml_from_content_Raises(st, src, upd) ==
    IF src.doc.fmt # "xml" \/ ~src.doc.wellformed
    THEN Raised("xml", st)
    ELSE Outcome(TRUE, "xml",
                 ProcessAll("xml", st, Records("xml", TRUE, src.doc), upd))

\* Command.import_xml_from_content: a ParseError is caught and the counters,
\* still 0, 0, 0, are returned.
import_xml_from_content(st, src, upd) ==
    IF src.doc.fmt # "xml" \/ ~src.doc.wellformed
    THEN Outcome(TRUE, "xml", Result(st, 0, 0, 0))
    ELSE Outcome(TRUE, "xml",
                 ProcessAll("xml", st, Records("xml", TRUE, src.doc), upd))

\* Command.import_xml: a ParseError becomes a CommandError.
import_xml(st, src, upd) ==
    IF ~src.available \/ src.doc.fmt # "xml" \/ ~src.doc.wellformed
    THEN Raised("xml", st)
    ELSE Outcome(TRUE, "xml",
                 ProcessAll("xml", st, Records("xml", FALSE, src.doc), upd))

\* The parser import_from_url picks: "none" when it raises CommandError.
RemoteParser(src) ==
    IF "csv" \in src.ctype \/ src.ext = "csv" THEN "csv"
    ELSE IF "json" \in src.ctype \/ src.ext = "json" THEN "json"
    ELSE IF "xml" \in src.ctype \/ src.ext = "xml" THEN "xml"
    ELSE "none"

\* Command.import_from_url.
import_from_url(st, src, upd) ==
    IF ~src.available THEN Raised("none", st)
    ELSE IF RemoteParser(src) = "csv" THEN import_csv(st, src, upd)
    ELSE IF RemoteParser(src) = "json" THEN import_json(st, src, upd)
    ELSE IF RemoteParser(src) = "xml"
         THEN import_xml_from_content(st, src, upd)
    ELSE Raised("none", st)

\* Command.import_file.
import_file(st, src, upd) ==
    IF src.remote THEN import_from_url(st, src, upd)
    ELSE IF src.ext = "csv" THEN import_csv(st, src, upd)
    ELSE IF src.ext = "json" THEN import_json(st, src, upd)
    ELSE IF src.ext = "xml" THEN import_xml(st, src, upd)
    ELSE Raised("none", st)

(***************************************************************************)
(* The inputs of the model: two external ids, two versions of the fields   *)
(* of a record, and one record for each way a record can fail.             *)
(***************************************************************************)
Ids == {"a", "b"}

GoodRec(id, v) ==
    IF v = 1
    THEN [id |-> id, name |-> "n1", latitude |-> <<"1", ".", "5">>,
          longitude |-> <<"2", ".", "5">>, category |-> "c1",
          ratings |-> PStr(<<"[", "1", ",", "2", "]">>)]
    ELSE [id |-> id, name |-> "n2", latitude |-> <<"2", ".", "5">>,
          longitude |-> <<"1", "2", ".", "5">>, category |-> "c2",
          ratings |-> PStr(<<"{", "3", "}">>)]

Without(r, f) == [g \in DOMAIN r \ {f} |-> r[g]]

MissingField == Without(GoodRec("b", 1), "latitude")
BadNumeral == [GoodRec("b", 1) EXCEPT !.latitude = <<"x">>]
StoreRefuses == [GoodRec("b", 1) EXCEPT !.latitude = <<"1", "2", "5">>]

Described ==
    [GoodRec("a", 1) EXCEPT !.ratings = PList(<<PNum(4 * Scale)>>)]
        @@ [description |-> "d1"]

RawRecords(fmt) ==
    {GoodRec("a", 1), GoodRec("a", 2), GoodRec("b", 1), MissingField,
     BadNumeral, StoreRefuses}
        \cup (IF fmt = "json" THEN {Described} ELSE {})

SeqsUpTo(S, n) == UNION {[1..k -> S] : k \in 0..n}

Doc(fmt, wf, tag, recs) ==
    [fmt |-> fmt, wellformed |-> wf, tag |-> tag, recs |-> recs]

Docs(fmt) ==
    LET seqs == SeqsUpTo(RawRecords(fmt), MaxRecs)
    IN  IF fmt = "csv"
        THEN {Doc("csv", wf, "none", recs) : wf \in BOOLEAN, recs \in seqs}
        ELSE IF fmt = "json"
        THEN {Doc("json", TRUE, "none", recs) : recs \in seqs}
                 \cup {Doc("json", FALSE, "none", <<>>)}
        ELSE {Doc("xml", TRUE, "poi", recs) : recs \in seqs}
                 \cup {Doc("xml", TRUE, "DATA_RECORD", recs) :
                           recs \in seqs \ {<<>>}}
                 \cup {Doc("xml", FALSE, "poi", <<>>)}

Source(remote, ext, ctype, available, doc) ==
    [remote |-> remote, ext |-> ext, ctype |-> ctype,
     available |-> available, doc |-> doc]

\* Sources whose name tells their format: a local file by its extension, a
\* URL by its content type.
NamedSources ==
    LET docs == UNION {Docs(fmt) : fmt \in Formats}
    IN  {Source(FALSE, doc.fmt, {}, TRUE, doc) : doc \in docs}
            \cup {Source(TRUE, "none", {doc.fmt}, TRUE, doc) : doc \in docs}

OneRecord(fmt) == Doc(fmt, TRUE, IF fmt = "xml" THEN "poi" ELSE "none",
                      <<GoodRec("a", 1)>>)

Exts == Formats \cup {"none"}

\* Every content type and extension a URL can come with, and files and
\* URLs that cannot be read.
ResolveSources ==
    {Source(TRUE, ext, ctype, TRUE, OneRecord(fmt)) :
         ext \in Exts, ctype \in SUBSET Formats, fmt \in Formats}
        \cup {Source(remote, ext, {}, avail, OneRecord("csv")) :
                  remote \in BOOLEAN, ext \in Exts, avail \in BOOLEAN}

Sources == NamedSources \cup ResolveSources

CoreSources ==
    {Source(FALSE, "csv", {}, TRUE,
            Doc("csv", TRUE, "none", <<GoodRec("a", 1), BadNumeral>>)),
     Source(FALSE, "json", {}, TRUE,
            Doc("json", TRUE, "none", <<GoodRec("a", 2)>>)),
     Source(TRUE, "none", {"xml"}, TRUE,
            Doc("xml", TRUE, "poi", <<GoodRec("b", 1)>>)),
     Source(FALSE, "none", {}, TRUE, OneRecord("csv")),
     Source(TRUE, "csv", {}, FALSE, OneRecord("csv")),
     Source(FALSE, "json", {}, TRUE, Doc("json", FALSE, "none", <<>>)),
     Source(TRUE, "none", {}, TRUE, OneRecord("json")),
     Source(FALSE, "xml", {}, TRUE, Doc("xml", FALSE, "poi", <<>>)),
     Source(TRUE, "xml", {}, TRUE, Doc("xml", FALSE, "poi", <<>>))}

\* The lists of sources a run is given: the lists of up to MaxSources core
\* sources and, of every source, the source alone and the source twice.
CoreLists == SeqsUpTo(CoreSources, MaxSources) \ {<<>>}

FilePathLists ==
    {<<s>> : s \in Sources} \cup {<<s, s>> : s \in Sources} \cup CoreLists

(***************************************************************************)
(* Command.handle.                                                         *)
(***************************************************************************)
Line(kind, parser, i, s, u) ==
    [kind |-> kind, parser |-> parser, imported |-> i, skipped |-> s,
     updated |-> u]

Init ==
    /\ store = {}
    /\ pc = "idle"
    /\ file_paths = <<>>
    /\ idx = 1
    /\ update_existing = FALSE
    /\ total_imported = 0
    /\ total_skipped = 0
    /\ total_updated = 0
    /\ out = <<>>
    /\ ratings_data = PNone
    /\ ratings_result = PNone
    /\ rpc = "off"
    /\ workers = <<>>

\* The command is invoked: the options are read and the totals set to 0.
StartRun(paths, upd) ==
    /\ pc = "idle"
    /\ pc' = "running"
    /\ file_paths' = paths
    /\ update_existing' = upd
    /\ idx' = 1
    /\ total_imported' = 0
    /\ total_skipped' = 0
    /\ total_updated' = 0
    /\ out' = <<>>
    /\ UNCHANGED <<store, ratings_data, ratings_result, rpc, workers>>

\* The for loop without its try block: the first source that raises ends
\* the loop.
ImportNext_AbortOnError ==
    /\ pc = "running"
    /\ idx <= Len(file_paths)
    /\ \E r \in {import_file(store, file_paths[idx], update_existing)} :
           /\ store' = r.st
           /\ IF r.ok
              THEN /\ total_imported' = total_imported + r.imported
                   /\ total_skipped' = total_skipped + r.skipped
                   /\ total_updated' = total_updated + r.updated
                   /\ out' = Append(out, Line("processed", r.parser,
                                              r.imported, r.skipped,
                                              r.updated))
                   /\ idx' = idx + 1
              ELSE /\ UNCHANGED <<total_imported, total_skipped,
                                  total_updated>>
                   /\ out' = Append(out, Line("error", r.parser, 0, 0, 0))
                   /\ idx' = Len(file_paths) + 1
    /\ UNCHANGED <<pc, file_paths, update_existing, ratings_data,
                   ratings_result, rpc, workers>>

\* The for loop with no except clause: the exception of a source leaves
\* handle and the command ends there.
ImportNext_Uncaught ==
    /\ pc = "running"
    /\ idx <= Len(file_paths)
    /\ \E r \in {import_file(store, file_paths[idx], update_existing)} :
           /\ store' = r.st
           /\ IF r.ok
              THEN /\ total_imported' = total_imported + r.imported
                   /\ total_skipped' = total_skipped + r.skipped
                   /\ total_updated' = total_updated + r.updated
                   /\ out' = Append(out, Line("processed", r.parser,
                                              r.imported, r.skipped,
                                              r.updated))
                   /\ pc' = pc
              ELSE /\ UNCHANGED <<total_imported, total_skipped,
                                  total_updated>>
                   /\ out' = Append(out, Line("error", r.parser, 0, 0, 0))
                   /\ pc' = "raised"
    /\ idx' = idx + 1
    /\ UNCHANGED <<file_paths, update_existing, ratings_data,
                   ratings_result, rpc, workers>>

\* One pass of handle's for loop: import_file in its try block.
ImportNext ==
    /\ pc = "running"
    /\ idx <= Len(file_paths)
    /\ \E r \in {import_file(store, file_paths[idx], update_existing)} :
           /\ store' = r.st
           /\ IF r.ok
              THEN /\ total_imported' = total_imported + r.imported
                   /\ total_skipped' = total_skipped + r.skipped
                   /\ total_updated' = total_updated + r.updated
                   /\ out' = Append(out, Line("processed", r.parser,
                                              r.imported, r.skipped,
                                              r.updated))
              ELSE /\ UNCHANGED <<total_imported, total_skipped,
                                  total_updated>>
                   /\ out' = Append(out, Line("error", r.parser, 0, 0, 0))
    /\ idx' = idx + 1
    /\ UNCHANGED <<pc, file_paths, update_existing, ratings_data,
                   ratings_result, rpc, workers>>

\* After the loop: the totals line.
PrintTotals ==
    /\ pc = "running"
    /\ idx > Len(file_paths)
    /\ out' = Append(out, Line("total", "none", total_imported,
                               total_skipped, total_updated))
    /\ pc' = "done"
    /\ UNCHANGED <<store, file_paths, idx, update_existing, total_imported,
                   total_skipped, total_updated, ratings_data,
                   ratings_result, rpc, workers>>

\* handle returns and the command's process ends; the table stays.
Return ==
    /\ pc = "done"
    /\ pc' = "idle"
    /\ file_paths' = <<>>
    /\ idx' = 1
    /\ update_existing' = FALSE
    /\ total_imported' = 0
    /\ total_skipped' = 0
    /\ total_updated' = 0
    /\ out' = <<>>
    /\ UNCHANGED <<store, ratings_data, ratings_result, rpc, workers>>

\* The command is invoked with some list of sources, with or without
\* --update.
Invoke ==
    /\ pc = "idle"
    /\ \E paths \in FilePathLists, upd \in BOOLEAN : StartRun(paths, upd)

Next ==
    \/ Invoke
    \/ ImportNext
    \/ PrintTotals
    \/ Return

Spec == Init /\ [][Next]_vars

(***************************************************************************)
(* What the claims speak of.                                               *)
(***************************************************************************)
\* The parser a source is handed to: "none" when its type is not resolved.
ParserOf(src) ==
    IF src.remote THEN RemoteParser(src)
    ELSE IF src.ext \in Formats THEN src.ext
    ELSE "none"

\* The parser's reader refuses the whole document.
Unparsable(src) ==
    IF ParserOf(src) = "csv" THEN src.doc.fmt = "csv" /\ ~src.doc.wellformed
    ELSE src.doc.fmt # ParserOf(src) \/ ~src.doc.wellformed

\* The records a source holds for its parser.
RecordsOf(src) ==
    IF ParserOf(src) = "none" \/ ~src.available \/ Unparsable(src) THEN <<>>
    ELSE Records(ParserOf(src), src.remote, src.doc)

\* A record that is reconciled without an error: it has every required
\* field, its numerals are numerals and the table accepts its values.
Valid(src, r) ==
    /\ BuildPoiData(ParserOf(src), r).ok
    /\ StoreAccepts(BuildPoiData(ParserOf(src), r).data)

DataOf(src, r) == BuildPoiData(ParserOf(src), r).data

ValidAt(src) == {k \in 1..Len(RecordsOf(src)) : Valid(src, RecordsOf(src)[k])}

StoredIds(st) == {row.external_id : row \in st}

\* The step of handle that imports file_paths[idx].
ImportStep == pc = "running" /\ idx <= Len(file_paths) /\ idx' = idx + 1

Counts(line) == <<line.imported, line.skipped, line.updated>>

\* C1: the table never holds two rows with the same external_id, whatever
\* runs have been made: any sources, any formats, with or without --update,
\* with external ids repeated inside a source and across sources.
C1_OneRowPerExternalId ==
    \A r1 \in store, r2 \in store :
        r1.external_id = r2.external_id => r1 = r2

\* A second source of a run has updated a row of an id stored before it.
C1_Witness ==
    /\ idx = 3
    /\ out[2].kind = "processed"
    /\ out[2].updated >= 1
    /\ Cardinality(store) = Cardinality(Ids)

\* C2: without --update, importing a source removes and changes no stored
\* row, counts as skipped every record whose external_id was stored before
\* and updates nothing; and importing the source that was imported just
\* before it reports 0 imported, N skipped, 0 updated for its N records and
\* leaves the table as it was.
C2_SkipLeavesStore ==
    [][(ImportStep /\ ~update_existing) =>
          LET src == file_paths[idx]
              recs == RecordsOf(src)
              known == {k \in 1..Len(recs) :
                           /\ "id" \in DOMAIN recs[k]
                           /\ recs[k].id \in StoredIds(store)}
          IN  /\ \A row \in store : row \in store'
              /\ out'[idx].updated = 0
              /\ out'[idx].kind = "processed" =>
                     out'[idx].skipped >= Cardinality(known)
              /\ (/\ idx >= 2
                  /\ file_paths[idx - 1] = src
                  /\ out[idx - 1].kind = "processed") =>
                     /\ store' = store
                     /\ out'[idx].kind = "processed"
                     /\ Counts(out'[idx]) = <<0, Len(recs), 0>>]_vars

\* A source of two records was imported twice without --update: the first
\* time created a row, the second time skipped both records.
C2_Witness ==
    /\ ~update_existing
    /\ idx = 3
    /\ file_paths[1] = file_paths[2]
    /\ out[1].kind = "processed"
    /\ out[1].imported >= 1
    /\ Counts(out[2]) = <<0, 2, 0>>

\* C3: with --update, importing a source leaves every stored row that has
\* a valid record in the source with the fields that record supplies set
\* to the record's values (the last such record's) and its other fields as
\* they were, and leaves the other rows alone; and a source of N valid
\* records whose external ids are all stored reports 0 imported, 0 skipped,
\* N updated.
C3_UpdateOverwrites ==
    [][(ImportStep /\ update_existing /\ out'[idx].kind = "processed") =>
          LET src == file_paths[idx]
              recs == RecordsOf(src)
              hits(row) == {k \in ValidAt(src) :
                               recs[k].id = row.external_id}
              last(row) == CHOOSE k \in hits(row) :
                               \A j \in hits(row) : j <= k
          IN  /\ \A row \in store :
                     IF hits(row) = {} THEN row \in store'
                     ELSE LET data == DataOf(src, recs[last(row)])
                          IN  \E new \in store' :
                                  /\ new.internal_id = row.internal_id
                                  /\ \A f \in DOMAIN data : new[f] = data[f]
                                  /\ \A f \in DOMAIN row \ DOMAIN data :
                                         new[f] = row[f]
              /\ (/\ ValidAt(src) = 1..Len(recs)
                  /\ \A k \in 1..Len(recs) :
                         recs[k].id \in StoredIds(store)) =>
                     Counts(out'[idx]) = <<0, 0, Len(recs)>>]_vars

\* A row created with a description by a JSON source was updated by two
\* records of a source that supplies none: it has the new name and the old
\* description.
C3_Witness ==
    /\ update_existing
    /\ idx = 2
    /\ out[1].kind = "processed"
    /\ Counts(out[1]) = <<0, 0, 2>>
    /\ \E row \in store : row.name = "n2" /\ row.description = "d1"

\* C4: every record of a source that was processed is counted exactly once
\* in imported, skipped or updated; each record that fails (a missing
\* field, a malformed numeral, a value the table refuses) is among the
\* skipped and none of them is among the imported or updated, also when
\* records follow it.
C4_RecordFailureIsolated ==
    \A k \in 1..(idx - 1) :
        (k <= Len(out) /\ out[k].kind = "processed") =>
            LET src == file_paths[k]
                n == Len(RecordsOf(src))
                failing == n - Cardinality(ValidAt(src))
            IN  /\ out[k].imported + out[k].skipped + out[k].updated = n
                /\ out[k].skipped >= failing
                /\ update_existing => out[k].skipped = failing
                /\ out[k].imported + out[k].updated <= n - failing

\* A source whose first record fails and whose second is new: one skipped,
\* one imported.
C4_Witness ==
    /\ idx = 2
    /\ Len(RecordsOf(file_paths[1])) = 2
    /\ ~Valid(file_paths[1], RecordsOf(file_paths[1])[1])
    /\ Valid(file_paths[1], RecordsOf(file_paths[1])[2])
    /\ Counts(out[1]) = <<1, 1, 0>>

\* A source fails: its type is not resolved, it cannot be fetched or read,
\* or its parser's reader refuses the whole document.  XML text from a URL
\* that is not XML does not fail the source (C8).
SourceFails(src) ==
    \/ ParserOf(src) = "none"
    \/ ~src.available
    \/ Unparsable(src) /\ ~(src.remote /\ ParserOf(src) = "xml")

RECURSIVE SumOf(_, _)
SumOf(lines, f) ==
    IF lines = <<>> THEN 0
    ELSE lines[1][f] + SumOf(Tail(lines), f)

Handled == SubSeq(out, 1, idx - 1)

TotalsOnceAtEnd ==
    /\ out # <<>>
    /\ out[Len(out)].kind = "total"
    /\ \A k \in 1..(Len(out) - 1) : out[k].kind # "total"

\* The command is invoked with a list of core sources.
InvokeCore ==
    /\ pc = "idle"
    /\ \E paths \in CoreLists, upd \in BOOLEAN : StartRun(paths, upd)

NextCore ==
    \/ InvokeCore
    \/ ImportNext
    \/ PrintTotals
    \/ Return

\* The runs over lists of core sources, with the scheduling of handle: the
\* loop over the list and the statement after it are run to the end.  The
\* only step of NextCore that moves idx forward while the run is on is
\* ImportNext, so fairness of the loop is stated on the position alone.
SpecLive ==
    Init /\ [][NextCore]_vars /\ WF_idx(ImportStep) /\ WF_vars(PrintTotals)

\* C6: a run that has started reaches the totals line; until then no
\* totals line is written, and then it is written once, after a line for
\* every source of the list; when every source failed the totals are
\* 0, 0, 0.
C6_RunPrintsTotals ==
    /\ [](pc = "running" => <>(pc = "done"))
    /\ [](pc = "running" => \A k \in 1..Len(out) : out[k].kind # "total")
    /\ [](pc = "done" =>
             /\ TotalsOnceAtEnd
             /\ Len(out) = Len(file_paths) + 1
             /\ (\A k \in 1..Len(file_paths) : out[k].kind = "error") =>
                    Counts(out[Len(out)]) = <<0, 0, 0>>)

\* A run of two sources that both failed is done.
C6_Witness ==
    /\ pc = "done"
    /\ Len(file_paths) = 2
    /\ out[1].kind = "error"
    /\ out[2].kind = "error"
    /\ Counts(out[3]) = <<0, 0, 0>>

\* The source is handed to the XML parser and its text is not XML.
XmlParseFails(src) ==
    /\ src.available
    /\ ParserOf(src) = "xml"
    /\ Unparsable(src)

\* C8 as stated: XML text that does not parse, in a local file or from a
\* URL, gives the source a line with 0 imported, 0 skipped, 0 updated.
C8_Original ==
    \A k \in 1..(idx - 1) :
        (k <= Len(out) /\ XmlParseFails(file_paths[k])) =>
            out[k] = Line("processed", "xml", 0, 0, 0)

\* C8, amended: XML text from a URL that does not parse gives the source a
\* line with 0 imported, 0 skipped, 0 updated and leaves the totals as they
\* were; a local XML file that does not parse is a source-level error.
C8_XmlParseFailure ==
    \A k \in 1..(idx - 1) :
        (k <= Len(out) /\ XmlParseFails(file_paths[k])) =>
            IF file_paths[k].remote
            THEN out[k] = Line("processed", "xml", 0, 0, 0)
            ELSE out[k] = Line("error", "xml", 0, 0, 0)

\* XML text from a URL that does not parse was handled, after a source
\* that imported a record.
C8_Witness ==
    /\ idx = 3
    /\ out[1].imported >= 1
    /\ file_paths[2].remote
    /\ XmlParseFails(file_paths[2])
    /\ out[2].kind = "processed"

\* C9 as stated: a URL whose content type names a format is parsed as a
\* format its content type names, whatever its extension; one whose content
\* type names none is parsed by its extension; one with neither fails.
C9_Original ==
    \A k \in 1..(idx - 1) :
        (k <= Len(out) /\ file_paths[k].remote /\ file_paths[k].available) =>
            LET src == file_paths[k]
            IN  IF src.ctype # {} THEN out[k].parser \in src.ctype
                ELSE IF src.ext \in Formats THEN out[k].parser = src.ext
                ELSE out[k] = Line("error", "none", 0, 0, 0)

(***************************************************************************)
(* parse_ratings on its own: it is called once with a value drawn from     *)
(* the texts of up to MaxRatingLen characters, the texts the documentation *)
(* names, and values that are not text.                                    *)
(***************************************************************************)
RatingChars == {"1", "5", ".", ",", "[", "]", "{", "}", "x"}

BraceWrapped == <<"{", "1", ",", "2", ",", "3", "}">>
JsonArray == <<"[", "1", ",", "2", ",", "3", "]">>
BareNumeral == <<"4", ".", "5">>

RatingTexts ==
    SeqsUpTo(RatingChars, MaxRatingLen)
        \cup {BraceWrapped, JsonArray, BareNumeral}

RatingInputs ==
    {PStr(s) : s \in RatingTexts}
        \cup {PList(<<>>), PList(<<PNum(Scale), PNum(2 * Scale)>>), PNone,
              PNum(3 * Scale), PDict}

InitRatings ==
    /\ store = {}
    /\ pc = "idle"
    /\ file_paths = <<>>
    /\ idx = 1
    /\ update_existing = FALSE
    /\ total_imported = 0
    /\ total_skipped = 0
    /\ total_updated = 0
    /\ out = <<>>
    /\ ratings_data \in RatingInputs
    /\ ratings_result = PNone
    /\ rpc = "call"
    /\ workers = <<>>

\* The call of parse_ratings(ratings_data) and its return.
ParseRatings ==
    /\ rpc = "call"
    /\ ratings_result' = parse_ratings(ratings_data)
    /\ rpc' = "returned"
    /\ UNCHANGED <<store, pc, file_paths, idx, update_existing,
                   total_imported, total_skipped, total_updated, out,
                   ratings_data, workers>>

NextRatings == ParseRatings

SpecRatings == InitRatings /\ [][NextRatings]_vars

IsNumberList(v) ==
    /\ v.kind = "list"
    /\ \A i \in 1..Len(v.items) : v.items[i].kind = "num"

\* C10 as stated: whatever it is given, parse_ratings returns a sequence
\* of numbers; a sequence is returned as it is, "{1,2,3}" gives
\* [1.0, 2.0, 3.0], "4.5" gives [4.5] and the empty text gives [].
C10_Original ==
    rpc = "returned" =>
        /\ IsNumberList(ratings_result)
        /\ ratings_data.kind = "list" => ratings_result = ratings_data
        /\ ratings_data = PStr(BraceWrapped) =>
               ratings_result =
                   PList(<<PNum(Scale), PNum(2 * Scale), PNum(3 * Scale)>>)
        /\ ratings_data = PStr(BareNumeral) =>
               ratings_result = PList(<<PNum(NumberOf(<<"4">>, <<"5">>))>>)
        /\ ratings_data = PStr(<<>>) => ratings_result = PList(<<>>)

(***************************************************************************)
(* save_poi run by several reconcilers at once, each in its own            *)
(* transaction on the same table.  The table is the committed rows; a row  *)
(* a reconciler has inserted and not yet committed is staged with it.  A   *)
(* query sees the committed rows (READ COMMITTED).  get_or_create is       *)
(* get(); on DoesNotExist, create(); on IntegrityError, get() again.       *)
(***************************************************************************)
MaxWorkers == 3       \* reconcilers running save_poi at once

Workers == 1..MaxWorkers

\* The records the reconcilers are given: two versions of "a" and one "b".
WorkerData ==
    {BuildPoiData("csv", r).data :
         r \in {GoodRec("a", 1), GoodRec("a", 2), GoodRec("b", 1)}}

Staged(ws) == UNION {ws[w].staged : w \in DOMAIN ws}

\* The unique index makes an INSERT wait while another transaction holds an
\* uncommitted row with the same external_id.
InsertWaits(ws, w) ==
    \E v \in DOMAIN ws \ {w} : UniqueViolation(ws[v].staged, ws[w].data)

\* poi.save(): the UPDATE of the row with the primary key of poi.
SaveRow(st, new) ==
    {row \in st : row.internal_id # new.internal_id} \cup {new}

InitConc ==
    /\ store = {}
    /\ pc = "idle"
    /\ file_paths = <<>>
    /\ idx = 1
    /\ update_existing = FALSE
    /\ total_imported = 0
    /\ total_skipped = 0
    /\ total_updated = 0
    /\ out = <<>>
    /\ ratings_data = PNone
    /\ ratings_result = PNone
    /\ rpc = "off"
    /\ workers \in [Workers -> {[pc |-> "get", data |-> d, upd |-> u,
                                 poi |-> {}, staged |-> {},
                                 raced |-> FALSE, outcome |-> "none"] :
                                    d \in WorkerData, u \in BOOLEAN}]

UnchangedRun ==
    UNCHANGED <<pc, file_paths, idx, update_existing, total_imported,
                total_skipped, total_updated, out, ratings_data,
                ratings_result, rpc>>

\* get_or_create: the first get().
GetRow(w) ==
    /\ workers[w].pc = "get"
    /\ LET found == Matching(store, workers[w].data)
       IN  workers' = [workers EXCEPT
               ![w].poi = found,
               ![w].pc = IF Cardinality(found) = 1 THEN "found"
                         ELSE IF found = {} THEN "create"
                         ELSE "done",
               ![w].outcome = IF Cardinality(found) > 1 THEN "skipped"
                              ELSE "none"]
    /\ UNCHANGED store
    /\ UnchangedRun

\* get_or_create: create() after DoesNotExist.  A refused INSERT leaves
\* save_poi by its except clause unless it is an IntegrityError.
CreateRow(w) ==
    /\ workers[w].pc = "create"
    /\ ~InsertWaits(workers, w)
    /\ LET data == workers[w].data
           row == NewRow(store \cup Staged(workers), data)
       IN  workers' = [workers EXCEPT ![w] =
               IF ~StoreAccepts(data)
               THEN [@ EXCEPT !.pc = "done", !.outcome = "skipped"]
               ELSE IF UniqueViolation(store, data)
               THEN [@ EXCEPT !.pc = "reget", !.raced = TRUE]
               ELSE [@ EXCEPT !.pc = "commit", !.staged = {row},
                              !.poi = {row}, !.outcome = "created"]]
    /\ UNCHANGED store
    /\ UnchangedRun

\* get_or_create: get() again after IntegrityError; DoesNotExist now
\* raises the IntegrityError, which save_poi catches.
GetRowAgain(w) ==
    /\ workers[w].pc = "reget"
    /\ LET found == Matching(store, workers[w].data)
       IN  workers' = [workers EXCEPT
               ![w].poi = found,
               ![w].pc = IF Cardinality(found) = 1 THEN "found" ELSE "done",
               ![w].outcome = IF Cardinality(found) = 1 THEN "none"
                              ELSE "skipped"]
    /\ UNCHANGED store
    /\ UnchangedRun

\* save_poi after get_or_create returned a row it did not create: the
\* update, committed as the atomic block is left, or the skip.
UpdateOrSkip(w) ==
    /\ workers[w].pc = "found"
    /\ LET data == workers[w].data
           poi == CHOOSE row \in workers[w].poi : TRUE
           new == SetAttrs(poi, data)
       IN  IF workers[w].upd /\ StoreAccepts(new)
           THEN /\ store' = SaveRow(store, new)
                /\ workers' = [workers EXCEPT ![w].pc = "done",
                                              ![w].outcome = "updated"]
           ELSE /\ store' = store
                /\ workers' = [workers EXCEPT ![w].pc = "done",
                                              ![w].outcome = "skipped"]
    /\ UnchangedRun

\* save_poi returns (1, 0, 0) and the atomic block commits the new row.
CommitRow(w) ==
    /\ workers[w].pc = "commit"
    /\ store' = store \cup workers[w].staged
    /\ workers' = [workers EXCEPT ![w].pc = "done", ![w].staged = {}]
    /\ UnchangedRun

NextConc ==
    \/ \E w \in Workers : GetRow(w)
    \/ \E w \in Workers : CreateRow(w)
    \/ \E w \in Workers : GetRowAgain(w)
    \/ \E w \in Workers : UpdateOrSkip(w)
    \/ \E w \in Workers : CommitRow(w)

SpecConc == InitConc /\ [][NextConc]_vars

WorkersOn(id) == {w \in Workers : workers[w].data.external_id = id}

Creators(id) == {w \in WorkersOn(id) : workers[w].outcome = "created"}

AllDone == \A w \in Workers : workers[w].pc = "done"

RowsCreated(before, after) ==
    {row \in after : \A old \in before : old.internal_id # row.internal_id}

\* The rows of the table a step overwrote with other values.
RowsOverwritten(before, after) == {row \in before : row \notin after}

\* C11 as stated: the totals of a run agree with the table.  StartRun sets
\* the totals to 0 and only the passes of the loop change the totals or the
\* table, so the totals agree at the end of every run exactly when every
\* pass adds to total_imported the number of rows it created and counts in
\* total_updated every row it overwrote; this is to hold for every source,
\* among them a CSV source whose reader raises after some of its rows were
\* reconciled, which is reported as an error and adds 0 to the totals.
C11_Original ==
    [][ImportStep =>
          /\ total_imported' - total_imported =
                 Cardinality(RowsCreated(store, store'))
          /\ total_updated' - total_updated >=
                 Cardinality(RowsOverwritten(store, store'))]_vars

====
